---- MODULE Spec2Model ----
(***************************************************************************)
(* Verification model of the VirtualFrontDesk backend:                     *)
(*   - SessionManager        (src/backend/SessionManager.py)               *)
(*   - VirtualFrontDesk      (src/backend/VirtualFrontDesk.py)             *)
(*   - KnowledgeRepository   (src/backend/KnowledgeRepository.py)          *)
(*   - VersionDetector       (src/backend/VersionDetector.py)              *)
(*   - WebScraper            (src/backend/WebScraper.py)                   *)
(***************************************************************************)
EXTENDS Integers, Sequences, FiniteSets, TLC

(***************************************************************************)
(* Bounds of the model.                                                    *)
(***************************************************************************)
\* largest max_history_per_session a SessionManager is constructed with
MaxM == 1
\* longest history list handed to update_history, and the cap on a history
\* that the code does not trim
MaxLen == 3
\* last tick of the wall clock
MaxTime == 2

(***************************************************************************)
(* SessionManager state.                                                   *)
(***************************************************************************)
VARIABLES
    max_history_per_session,   \* SessionManager.max_history_per_session
    sessions,                  \* SessionManager._sessions: dict id -> session
    now                        \* the wall clock read by datetime.now()

sessVars == <<max_history_per_session, sessions, now>>

(***************************************************************************)
(* Knowledge base state shared by the sync pipeline and the chat turns.    *)
(***************************************************************************)
VARIABLES
    progress,                  \* KnowledgeRepository.progress: status and step
    collection                 \* the canonical vector collection "tlcchatmate"

kbVars == <<progress, collection>>

(***************************************************************************)
(* The relational database and the sync runs (KnowledgeRepository).        *)
(***************************************************************************)
VARIABLES
    database,                  \* the Handbook, Course, faqs and url rows
    run                        \* per sync run: the locals of sync_data_to_chromadb

syncVars == <<database, run>>

(***************************************************************************)
(* Chat turns: one process_prompt call per worker of the HTTP runtime.     *)
(***************************************************************************)
VARIABLES
    turn,                      \* per worker: the locals of its process_prompt call
    nturns,                    \* number of chat requests received so far
    written,                   \* histories a single turn wrote, and the initial ones
    lastWrite                  \* per session id: what the last update_history stored

chatVars == <<turn, nturns, written, lastWrite>>

(***************************************************************************)
(* Calls of the side-effect free functions, checked one call at a time.    *)
(***************************************************************************)
VARIABLES
    call,                      \* the function called and its arguments
    value                      \* what the call returned

callVars == <<call, value>>

(***************************************************************************)
(* Change detection (EventDetection).                                      *)
(***************************************************************************)
VARIABLES
    last_processed_ids,        \* EventDetection.last_processed_ids: the baseline
    touched                    \* history: <<row id, r>> for each row modified
                               \* after sync run r read the tables

detectVars == <<last_processed_ids, touched>>

vars == <<max_history_per_session, sessions, now, progress, collection,
          database, run, turn, nturns, written, lastWrite, call, value,
          last_processed_ids, touched>>

\* no call is under way
NoCall == [fn |-> "none"]

SessionIds == {"s1", "s2"}
Roles == {"user", "assistant"}

\* The message contents a caller submits for a session id: the two sessions
\* are fed different contents.
ContentFor(sid) == IF sid = "s1" THEN {"a"} ELSE {"b"}

EntriesFor(sid) == [role : Roles, content : ContentFor(sid)]

\* all sequences over S of length 0..n
RECURSIVE SeqsUpTo(_, _)
SeqsUpTo(S, n) ==
    IF n = 0 THEN {<<>>}
    ELSE LET shorter == SeqsUpTo(S, n - 1)
         IN shorter \cup {Append(q, e) : q \in {x \in shorter : Len(x) = n - 1}, e \in S}

\* Python's lst[-n:] for n >= 0.  -0 is 0, so lst[-0:] is the whole list.
LastN(lst, n) ==
    IF n = 0 THEN lst
    ELSE IF n >= Len(lst) THEN lst
    ELSE SubSeq(lst, Len(lst) - n + 1, Len(lst))

session_exists(sid) == sid \in DOMAIN sessions

\* d[k] = v on a dict, and del d[k]
DictSet(d, k, v) == [x \in DOMAIN d \cup {k} |-> IF x = k THEN v ELSE d[x]]
DictDel(d, ks) == [x \in DOMAIN d \ ks |-> d[x]]

\* the session ids currently stored
get_all_sessions == DOMAIN sessions

(***************************************************************************)
(* SessionManager operations.  Every method body runs inside               *)
(* `with self._lock`, a critical section without blocking calls, so each   *)
(* method is one atomic step.  A method leaves call and value to its       *)
(* caller.                                                                 *)
(***************************************************************************)

\* the dict create_session stores: history always starts empty
NewSession == [history |-> <<>>, last_accessed |-> now]

\* create_session(session_id): an absent session_id is replaced by a fresh
\* uuid, which is one of the ids not stored yet; an explicit id may exist.
CreatedKeepingHistory(ss, sid) ==
    IF sid \in DOMAIN ss THEN [ss EXCEPT ![sid].last_accessed = now]
    ELSE DictSet(ss, sid, NewSession)
Created(ss, sid) == DictSet(ss, sid, NewSession)

create_session(sid) ==
    /\ sessions' = Created(sessions, sid)
    /\ UNCHANGED <<max_history_per_session, now, kbVars, syncVars, chatVars>>

\* get_session_history(session_id): a copy of the stored history, [] for an
\* unknown id; touching last_accessed is its only effect on the store.
HistoryOf(sid) == IF session_exists(sid) THEN sessions[sid].history ELSE <<>>

Touched(ss, sid) ==
    IF sid \in DOMAIN ss THEN [ss EXCEPT ![sid].last_accessed = now] ELSE ss

get_session_history(sid) ==
    /\ sessions' = Touched(sessions, sid)
    /\ UNCHANGED <<max_history_per_session, now, kbVars, syncVars, chatVars>>

\* the trimming of add_to_history: only when longer than 2 * max
TrimAppended(h) ==
    LET max_messages == max_history_per_session * 2
    IN IF Len(h) > max_messages THEN LastN(h, max_messages) ELSE h

\* mutant: the history list is one object shared by all sessions
AddedShared(ss, sid, entry) ==
    [s \in DOMAIN ss |->
        [history |-> TrimAppended(Append(ss[s].history, entry)),
         last_accessed |-> IF s = sid THEN now ELSE ss[s].last_accessed]]

\* the store after add_to_history appended entry to session sid
Added(ss, sid, entry) ==
    [ss EXCEPT ![sid] = [history |-> TrimAppended(Append(ss[sid].history, entry)),
                         last_accessed |-> now]]

\* add_to_history(session_id, role, content); on an unknown id it returns
\* False and changes nothing
add_to_history(sid, role, content) ==
    /\ session_exists(sid)
    /\ sessions' = Added(sessions, sid, [role |-> role, content |-> content])
    /\ UNCHANGED <<max_history_per_session, now, kbVars, syncVars, chatVars>>

\* the trimming of update_history: history[-max_messages:] if history else []
TrimReplaced(history) ==
    LET max_messages == max_history_per_session * 2
    IN IF history # <<>> THEN LastN(history, max_messages) ELSE <<>>

\* mutant: the new entries are merged into the stored history
ReplacedMerging(ss, sid, history) ==
    IF sid \in DOMAIN ss
    THEN [ss EXCEPT ![sid] = [history |-> TrimReplaced(ss[sid].history \o history),
                              last_accessed |-> now]]
    ELSE ss

\* the store after update_history(sid, history); unchanged for an unknown id
Replaced(ss, sid, history) ==
    IF sid \in DOMAIN ss
    THEN [ss EXCEPT ![sid] = [history |-> TrimReplaced(history),
                              last_accessed |-> now]]
    ELSE ss

update_history(sid, history) ==
    /\ session_exists(sid)
    /\ sessions' = Replaced(sessions, sid, history)
    /\ UNCHANGED <<max_history_per_session, now, kbVars, syncVars, chatVars>>

delete_session(sid) ==
    /\ session_exists(sid)
    /\ sessions' = DictDel(sessions, {sid})
    /\ UNCHANGED <<max_history_per_session, now, kbVars, syncVars, chatVars>>

\* the ids clear_expired_sessions collects: elapsed > timeout_seconds
ExpiredAtTimeout(timeout_seconds) ==
    {sid \in DOMAIN sessions : now - sessions[sid].last_accessed >= timeout_seconds}
Expired(timeout_seconds) ==
    {sid \in DOMAIN sessions : now - sessions[sid].last_accessed > timeout_seconds}

clear_expired_sessions(timeout_seconds) ==
    /\ sessions' = DictDel(sessions, Expired(timeout_seconds))
    /\ UNCHANGED <<max_history_per_session, now, kbVars, syncVars, chatVars>>

\* the wall clock advances between calls
Tick ==
    /\ now < MaxTime
    /\ now' = now + 1
    /\ UNCHANGED <<callVars, detectVars, max_history_per_session, sessions, kbVars, syncVars, chatVars>>

(***************************************************************************)
(* The vector collection and retrieval (VirtualFrontDesk).                 *)
(***************************************************************************)
RELEVANCE_THRESHOLD == 30              \* 0.30, in hundredths
TRANSLATED_RELEVANCE_THRESHOLD == 25   \* 0.25, in hundredths
RETRIEVAL_TOP_K == 15

NoProgram == "none"
MetaId == <<"_sync_metadata", 0, 0>>

\* chunk id f"{doc_id}_chunk_{idx}" of document doc_id = <<type, key>>
ChunkId(doc_id, idx) == <<doc_id[1], doc_id[2], idx>>

\* a published chunk with the metadata fields the filters and the context read
Chunk(doc_id, idx, archived, program, year) ==
    [id |-> ChunkId(doc_id, idx), is_archived |-> archived,
     program_id |-> program, revision_year |-> year]

\* the reserved entry update_sync_time writes; it has no is_archived field
SyncMetadata ==
    [id |-> MetaId, is_archived |-> FALSE, program_id |-> NoProgram, revision_year |-> 0]

\* Cosine distance, in tenths on [0, 20], between the query of a turn and a
\* chunk of the given document, as the store reports it.
Distance(id) ==
    CASE id[1] = "handbook" /\ id[2] = 1 -> 2
      [] id[1] = "handbook" /\ id[2] = 2 -> 14
      [] id[1] = "course" -> 15
      [] OTHER -> 16

\* collection.count()
Count(coll) == Cardinality(coll.items)

\* no collection of the canonical name, and the collection a sync run creates
\* by is the sync run whose create_collection call made this collection (-1:
\* an earlier process, or get_or_create_collection); a handle held by another
\* run names a collection that no longer exists
\* last_sync is the metadata of the _sync_metadata entry: '1970-01-01 00:00:00'
\* until update_sync_time has written one
Epoch == 0
NoCollection ==
    [exists |-> FALSE, cosine |-> FALSE, items |-> {}, by |-> -1, last_sync |-> Epoch]
Collection(items) ==
    [exists |-> TRUE, cosine |-> TRUE, items |-> items, by |-> -1, last_sync |-> Epoch]

\* client.get_or_create_collection(name): creates an empty collection, with
\* the default distance metric, when none exists
GotOrCreated(coll) ==
    IF coll.exists THEN coll
    ELSE [exists |-> TRUE, cosine |-> FALSE, items |-> {}, by |-> -1,
          last_sync |-> Epoch]

\* where filters: {"is_archived": b} and {"$and": [{"is_archived": b}, {"program_id": p}]}
AnyProgram == "any"
Where(archived, program) == [is_archived |-> archived, program_id |-> program]
broad_filter == Where(FALSE, AnyProgram)

MatchesProgramOnly(where, c) ==
    /\ c.id # MetaId
    /\ where.program_id = AnyProgram \/ c.program_id = where.program_id
Matches(where, c) ==
    /\ c.id # MetaId
    /\ c.is_archived = where.is_archived
    /\ where.program_id = AnyProgram \/ c.program_id = where.program_id

\* the chunks of S, nearest first
RECURSIVE Nearest(_)
Nearest(S) ==
    IF S = {} THEN <<>>
    ELSE LET c == CHOOSE x \in S : \A y \in S : Distance(x.id) <= Distance(y.id)
         IN <<c>> \o Nearest(S \ {c})

Take(q, n) == IF n >= Len(q) THEN q ELSE SubSeq(q, 1, n)
Min(a, b) == IF a <= b THEN a ELSE b

\* _run_query(collection, where): the empty result for an empty collection,
\* else the min(n_results, count) nearest chunks matching where
run_query(coll, where) ==
    IF Count(coll) = 0 THEN <<>>
    ELSE Take(Nearest({c \in coll.items : Matches(where, c)}),
              Min(RETRIEVAL_TOP_K, Count(coll)))

\* How the vector store behaves during one _query_collection call
StoreOutcomes == {"ok", "fails_once", "fails"}

\* _query_collection(query, where_filter): retry on a refreshed handle, then
\* the broad filter; on an exception one query with the broad filter; the
\* empty result when that raises too.
query_collection(coll, where, outcome) ==
    LET c == GotOrCreated(coll)
        first == run_query(c, where)
        second == IF first = <<>> THEN run_query(c, where) ELSE first
        third == IF second = <<>> /\ where # broad_filter
                 THEN run_query(c, broad_filter) ELSE second
    IN CASE outcome = "ok" -> third
         [] outcome = "fails_once" -> run_query(c, broad_filter)
         [] OTHER -> <<>>

\* similarity = 1 - distance / 2, in hundredths
Similarity(c) == 100 - 5 * Distance(c.id)

\* _extract_context_from_results(results, threshold): the chunks at or above
\* the threshold, in result order (a chunk's text stands for the chunk)
extract_context_above_threshold(results, threshold) ==
    LET keep(c) == Similarity(c) > threshold
        kept == SelectSeq(results, keep)
    IN [i \in 1..Len(kept) |-> kept[i].id]
extract_context_from_results(results, threshold) ==
    LET keep(c) == ~(Similarity(c) < threshold)
        kept == SelectSeq(results, keep)
    IN [i \in 1..Len(kept) |-> kept[i].id]

\* _prioritise_year_chunks(results, target_year, threshold)
prioritise_year_chunks(results, target_year, threshold) ==
    LET keep(c) == ~(Similarity(c) < threshold)
        hit(c) == keep(c) /\ c.revision_year = target_year
        rest(c) == keep(c) /\ c.revision_year # target_year
        ordered == SelectSeq(results, hit) \o SelectSeq(results, rest)
    IN [i \in 1..Len(ordered) |-> ordered[i].id]

\* _merge_context_strings(primary, secondary): de-duplicated, in order
RECURSIVE Dedup(_, _)
Dedup(q, seen) ==
    IF q = <<>> THEN <<>>
    ELSE IF Head(q) \in seen THEN Dedup(Tail(q), seen)
    ELSE <<Head(q)>> \o Dedup(Tail(q), seen \cup {Head(q)})

merge_context_strings(primary, secondary) == Dedup(primary \o secondary, {})

\* A word of a query: its text, the number it spells (-1 when it is not all
\* digits), and whether a keyword of historical_keywords or current_keywords
\* occurs in it ("now" occurs in "know": the code tests substrings)
Word(text, number, historical, current) ==
    [text |-> text, number |-> number, historical |-> historical, current |-> current]

\* re.findall(r'\b(19\d{2}|20\d{2})\b', query): the words that are a
\* 4-digit number 19xx or 20xx, in query order
YearMatches(query) ==
    LET is_year(w) == w.number >= 1900 /\ w.number <= 2099
    IN SelectSeq(query, is_year)

\* what should_include_archived reads off the query text
QueryFeatures(query, program_id) ==
    [year |-> IF YearMatches(query) # <<>> THEN YearMatches(query)[1].number ELSE 0,
     historical |-> \E i \in 1..Len(query) : query[i].historical,
     current |-> \E i \in 1..Len(query) : query[i].current,
     program_id |-> program_id]

\* mutant: the keywords are looked at before the year
should_include_archived_keywords_first(q) ==
    IF q.historical /\ ~q.current
    THEN [include_archived |-> TRUE, archived_only |-> TRUE,
          specific_year |-> 0, prefer_year |-> FALSE]
    ELSE IF q.year # 0
    THEN [include_archived |-> TRUE, archived_only |-> FALSE,
          specific_year |-> q.year, prefer_year |-> TRUE]
    ELSE [include_archived |-> q.historical, archived_only |-> FALSE,
          specific_year |-> 0, prefer_year |-> FALSE]
\* VersionDetector.should_include_archived(query): q.year is the first
\* 4-digit year 19xx/20xx of the query (0 when none), q.historical and
\* q.current tell whether a keyword of either list occurs
should_include_archived(q) ==
    IF q.year # 0
    THEN [include_archived |-> TRUE, archived_only |-> FALSE,
          specific_year |-> q.year, prefer_year |-> TRUE]
    ELSE IF q.historical /\ ~q.current
    THEN [include_archived |-> TRUE, archived_only |-> TRUE,
          specific_year |-> 0, prefer_year |-> FALSE]
    ELSE IF q.historical
    THEN [include_archived |-> TRUE, archived_only |-> FALSE,
          specific_year |-> 0, prefer_year |-> FALSE]
    ELSE [include_archived |-> FALSE, archived_only |-> FALSE,
          specific_year |-> 0, prefer_year |-> FALSE]

\* the features of a prompt that retrieval reads
QueryYears == {0, 2020}
Programs == {NoProgram, "bsit"}
Query(year, historical, current, program_id) ==
    [year |-> year, historical |-> historical, current |-> current,
     program_id |-> program_id]
Queries ==
    {Query(0, FALSE, FALSE, NoProgram), Query(0, FALSE, FALSE, "bsit"),
     Query(0, TRUE, FALSE, NoProgram), Query(0, TRUE, TRUE, "bsit"),
     Query(2020, FALSE, FALSE, NoProgram), Query(2020, FALSE, TRUE, "bsit")}

\* _retrieve_context(retrieval_query, prompt, translated_query); out gives the
\* store's behaviour in the archived query and in the current queries
retrieve_context(coll, q, is_translated, out) ==
    LET archive_params == should_include_archived(q)
        program_id == q.program_id
        threshold == IF is_translated THEN TRANSLATED_RELEVANCE_THRESHOLD
                     ELSE RELEVANCE_THRESHOLD
        archived_filter == IF program_id # NoProgram THEN Where(TRUE, program_id)
                           ELSE Where(TRUE, AnyProgram)
        archived_results == query_collection(coll, archived_filter, out["archived"])
        raw == extract_context_from_results(archived_results, threshold)
        archived_context ==
            IF raw # <<>> /\ archive_params.specific_year # 0
            THEN prioritise_year_chunks(archived_results,
                                        archive_params.specific_year, threshold)
            ELSE raw
        program_results == query_collection(coll, Where(FALSE, program_id), out["current"])
        general_results == query_collection(coll, Where(FALSE, AnyProgram), out["current"])
        current_context ==
            IF program_id # NoProgram
            THEN merge_context_strings(
                     extract_context_from_results(program_results, threshold),
                     extract_context_from_results(general_results, threshold))
            ELSE extract_context_from_results(general_results, threshold)
        Result(context, has_archived_content) ==
            [context |-> context, has_archived_content |-> has_archived_content,
             reached |-> TRUE]
    IN IF ~archive_params.include_archived
       THEN Result(current_context, FALSE)
       ELSE IF archive_params.archived_only
       THEN IF archived_context # <<>>
            THEN Result(archived_context, TRUE)
            ELSE Result(current_context, FALSE)
       ELSE IF archived_context # <<>>
            THEN Result(merge_context_strings(archived_context, current_context), TRUE)
            ELSE Result(current_context, FALSE)

(***************************************************************************)
(* Sync progress as the chat turn and the admin endpoints read it.         *)
(***************************************************************************)
Statuses == {"idle", "running", "completed", "error"}
Progress(status, step) == [status |-> status, step |-> step]

\* VirtualFrontDesk._is_sync_ready(): store_ok is FALSE when get_collection
\* or count raises
is_sync_ready_status_only(store_ok) == progress.status = "completed" /\ store_ok

is_sync_ready(store_ok) ==
    IF progress.status # "completed" THEN FALSE
    ELSE IF store_ok THEN Count(GotOrCreated(collection)) > 1
    ELSE FALSE

(***************************************************************************)
(* Version classification (VersionDetector).                               *)
(***************************************************************************)
\* A row of Handbook, Course or faqs as the pipeline reads it: id is
\* <<type, key>>, detected is what _detect_document_type finds in the text,
\* year and mentions are extract_all_revision_info (year 0: no revision
\* year), content is FALSE for an undecodable PDF or an empty question.
Row(type, key, detected, year, mentions, updated_at, content, archive_at) ==
    [id |-> <<type, key>>, type |-> type, detected |-> detected, year |-> year,
     mentions |-> mentions, updated_at |-> updated_at, content |-> content,
     archive_at |-> archive_at]

\* f"{doc_id}": the document id of a row, and its chunk ids
DocId(d) == d.id

\* group_key = f"{doc_type}_{detected_type}"
group_key(d) == <<d.type, d.detected>>

\* the sort key (has_revision_info, year, mentions, updated_at)
SortKeyNewestFirst(d) ==
    <<d.updated_at, IF d.year # 0 THEN 1 ELSE 0, d.year, d.mentions>>
SortKey(d) == <<IF d.year # 0 THEN 1 ELSE 0, d.year, d.mentions, d.updated_at>>

\* tuple comparison of Python: a < b
RECURSIVE TupleLess(_, _)
TupleLess(a, b) ==
    IF a = <<>> \/ b = <<>> THEN a = <<>> /\ b # <<>>
    ELSE IF Head(a) # Head(b) THEN Head(a) < Head(b)
    ELSE TupleLess(Tail(a), Tail(b))

\* list.sort(key=..., reverse=True): descending, equal keys keep their order
RECURSIVE InsertDescending(_, _)
InsertDescending(sorted, d) ==
    IF sorted = <<>> THEN <<d>>
    ELSE IF TupleLess(SortKey(Head(sorted)), SortKey(d))
         THEN <<d>> \o sorted
         ELSE <<Head(sorted)>> \o InsertDescending(Tail(sorted), d)

RECURSIVE SortDescending(_, _)
SortDescending(docs, sorted) ==
    IF docs = <<>> THEN sorted
    ELSE SortDescending(Tail(docs), InsertDescending(sorted, Head(docs)))

\* is_archived = (idx > 0), for the 1-based position pos = idx + 1
is_archived_all(pos) == pos >= 1
is_archived(pos) == pos > 1

\* _group_similar_documents(documents_data): the documents of one group, in
\* the order of documents_data
GroupKeys(documents_data) ==
    {group_key(documents_data[i]) : i \in 1..Len(documents_data)}
Group(documents_data, key) ==
    LET in_group(d) == group_key(d) = key
    IN SelectSeq(documents_data, in_group)

\* the archive decisions of one group: a single document is current, else
\* the documents are ranked and all but the first are archived
GroupStatus(docs) ==
    IF Len(docs) = 1 THEN {<<DocId(docs[1]), FALSE>>}
    ELSE LET ranked == SortDescending(docs, <<>>)
         IN {<<DocId(ranked[pos]), is_archived(pos)>> : pos \in 1..Len(ranked)}

\* determine_archive_status(documents_data): dict document id -> bool
determine_archive_status(documents_data) ==
    LET decided == UNION {GroupStatus(Group(documents_data, key)) :
                             key \in GroupKeys(documents_data)}
    IN [id \in {p[1] : p \in decided} |->
           (CHOOSE p \in decided : p[1] = id)[2]]

(***************************************************************************)
(* The sync run (KnowledgeRepository.sync_data_to_chromadb) and the admin  *)
(* endpoint that starts it.                                                *)
(***************************************************************************)
\* number of POST /admin/sync requests
MaxTriggers == 1

\* run 0 is the startup run, run i the one requested by the i-th POST
Runs == 0..MaxTriggers

IdleRun ==
    [pc |-> "none", documents_data |-> <<>>, archive_status |-> <<>>,
     chunks |-> {}, ids |-> <<>>, result |-> FALSE]

EmptyDatabase == [rows |-> {}, urls |-> {}]

\* the step labels, in the order a run goes through them
Steps == <<"Starting", "Analyzing", "Chunking", "Scraping", "Completed">>
StepIndex(step) == CHOOSE i \in 1..Len(Steps) : Steps[i] = step

\* a run has been entered and has not returned
Executing(r) ==
    run[r].pc \in {"connect", "collect", "analyze", "chunk", "scrape",
                   "write_back", "delete", "create", "upsert", "sync_time"}

\* rows of a table in the order the cursor returns them (by key)
RECURSIVE ByKey(_)
ByKey(rows) ==
    IF rows = {} THEN <<>>
    ELSE LET first == CHOOSE d \in rows : \A e \in rows : d.id[2] <= e.id[2]
         IN <<first>> \o ByKey(rows \ {first})

\* _process_handbook_data, _process_course_data: WHERE archive_at IS NULL,
\* rows whose PDF does not decode are skipped; _process_faq_data: all rows
\* with a question
table_documents_with_archived(rows, type) ==
    ByKey({d \in rows : d.type = type /\ d.content})
table_documents(rows, type) ==
    ByKey({d \in rows :
              /\ d.type = type
              /\ d.content
              /\ type \in {"handbook", "course"} => ~d.archive_at})
process_table(type) == table_documents(database.rows, type)

\* the documents_data the three table reads give over the rows
collected_documents(rows) ==
    table_documents(rows, "handbook") \o table_documents(rows, "course")
        \o table_documents(rows, "faq")

\* the progress updates of a run: status and step label
set_progress(status, step) == progress' = Progress(status, step)

\* the return of a run
Returned(r, result) ==
    [run EXCEPT ![r] = [IdleRun EXCEPT !.pc = "returned", !.result = result]]

\* except Exception: the sync failed
Fail(r) ==
    /\ run' = Returned(r, FALSE)
    /\ set_progress("error", progress.step)

\* POST /admin/sync: refused while the status is "running", else the run is
\* handed to the background tasks
trigger_sync(r) ==
    /\ r > 0
    /\ run[r].pc = "none"
    /\ \A q \in 1..(r - 1) : run[q].pc # "none"
    /\ run' = [run EXCEPT ![r].pc = IF progress.status = "running" THEN "rejected"
                                    ELSE "scheduled"]
    /\ UNCHANGED <<callVars, detectVars, sessVars, kbVars, database, chatVars>>

\* the thread or background task enters sync_data_to_chromadb
Begin(r) ==
    /\ run[r].pc = "scheduled"
    /\ run' = [run EXCEPT ![r].pc = "connect"]
    /\ set_progress("running", "Starting")
    /\ UNCHANGED <<callVars, detectVars, sessVars, collection, database, chatVars>>

\* db = self.get_db_connection(); if not db: return False
Connect(r) ==
    /\ run[r].pc = "connect"
    /\ \E connected \in BOOLEAN :
          IF connected
          THEN run' = [run EXCEPT ![r].pc = "collect"] /\ UNCHANGED progress
          ELSE Fail(r)
    /\ UNCHANGED <<callVars, detectVars, sessVars, collection, database, chatVars>>

\* collect_all_documents: the three table reads
Collect(r) ==
    /\ run[r].pc = "collect"
    /\ run' = [run EXCEPT
           ![r].documents_data = process_table("handbook") \o process_table("course")
                                     \o process_table("faq"),
           ![r].pc = "analyze"]
    /\ set_progress("running", "Analyzing")
    /\ UNCHANGED <<callVars, detectVars, sessVars, collection, database, chatVars>>

\* archive_status = self.version_detector.determine_archive_status(documents_data)
Analyze(r) ==
    /\ run[r].pc = "analyze"
    /\ run' = [run EXCEPT
           ![r].archive_status = determine_archive_status(run[r].documents_data),
           ![r].pc = "chunk"]
    /\ set_progress("running", "Chunking")
    /\ UNCHANGED <<callVars, detectVars, sessVars, collection, database, chatVars>>

\* _chunk_and_store_documents: for the first document, archive_status.get(
\* doc_id, ...) is the bool determine_archive_status stored, and bool has no
\* .get: AttributeError, which sync_data_to_chromadb catches
ChunkDocuments(r) ==
    /\ run[r].pc = "chunk"
    /\ IF run[r].documents_data # <<>>
       THEN Fail(r)
       ELSE /\ run' = [run EXCEPT ![r].pc = "scrape"]
            /\ set_progress("running", "Scraping")
    /\ UNCHANGED <<callVars, detectVars, sessVars, collection, database, chatVars>>

\* A row of the url table; link_url is the sequence of its parts: a scheme,
\* then names separated by "/" and ".".
Url(link_url, updated_at) == [link_url |-> link_url, updated_at |-> updated_at]
Schemes == {"https://", "http://"}
NotScheme(part) == part \notin Schemes
Underscored(parts) ==
    [i \in 1..Len(parts) |-> IF parts[i] \in {"/", "."} THEN "_" ELSE parts[i]]
RECURSIVE RStripUnderscores(_)
RStripUnderscores(parts) ==
    IF parts # <<>> /\ parts[Len(parts)] = "_"
    THEN RStripUnderscores(SubSeq(parts, 1, Len(parts) - 1))
    ELSE parts

\* url.replace('https://', '').replace('http://', '').replace('/', '_')
\*    .replace('.', '_').rstrip('_')
url_id(url) == RStripUnderscores(Underscored(SelectSeq(url, NotScheme)))

\* the rows of the url table in the order the cursor returns them
RECURSIVE url_rows(_)
url_rows(urls) ==
    IF urls = {} THEN <<>>
    ELSE LET first == CHOOSE u \in urls : TRUE
         IN <<first>> \o url_rows(urls \ {first})

\* process_scraped_content: one chunk per scraped page, is_archived False
UrlChunk(u) == Chunk(<<"url", url_id(u.link_url)>>, 0, FALSE, NoProgram, 0)

\* the ids process_scraped_content appends, one per scraped page
scraped_ids(pages) ==
    [i \in 1..Len(pages) |-> ChunkId(<<"url", url_id(pages[i].link_url)>>, 0)]

\* no id occurs twice in the list
Distinct(ids) == \A i, j \in 1..Len(ids) : ids[i] = ids[j] => i = j

\* scrape_all_websites and process_scraped_content (failures are caught),
\* then: if not documents: return False
Scrape(r) ==
    /\ run[r].pc = "scrape"
    /\ \E scraped \in {{}, database.urls} :
          LET chunks == run[r].chunks \cup {UrlChunk(u) : u \in scraped}
              ids == run[r].ids \o scraped_ids(url_rows(scraped))
          IN IF chunks = {}
             THEN /\ run' = Returned(r, FALSE)
                  /\ set_progress("completed", "Completed")
             ELSE /\ run' = [run EXCEPT ![r].chunks = chunks, ![r].ids = ids,
                                        ![r].pc = "write_back"]
                  /\ UNCHANGED progress
    /\ UNCHANGED <<callVars, detectVars, sessVars, collection, database, chatVars>>

\* the UPDATE ... SET archive_at = NOW() statements of
\* _update_archive_status_in_db: one per handbook or course id marked archived
ArchivedAll(rows, archive_status) ==
    {IF d.type \in {"handbook", "course"}
     THEN [d EXCEPT !.archive_at = TRUE] ELSE d : d \in rows}
Archived(rows, archive_status) ==
    {IF /\ d.type \in {"handbook", "course"}
        /\ DocId(d) \in DOMAIN archive_status
        /\ archive_status[DocId(d)]
     THEN [d EXCEPT !.archive_at = TRUE] ELSE d : d \in rows}

\* _update_archive_status_in_db(db, archive_status)
WriteBack(r) ==
    /\ run[r].pc = "write_back"
    /\ database' = [database EXCEPT !.rows = Archived(@, run[r].archive_status)]
    /\ run' = [run EXCEPT ![r].pc = "delete"]
    /\ UNCHANGED <<callVars, detectVars, sessVars, kbVars, chatVars>>

\* self.client.delete_collection(name=...), failures ignored
DeleteCollection(r) ==
    /\ run[r].pc = "delete"
    /\ collection' = NoCollection
    /\ run' = [run EXCEPT ![r].pc = "create"]
    /\ UNCHANGED <<callVars, detectVars, sessVars, progress, database, chatVars>>

\* self.client.create_collection(name=..., metadata={"hnsw:space": "cosine"}):
\* raises when a collection of that name exists
CreateCollection(r) ==
    /\ run[r].pc = "create"
    /\ IF collection.exists
       THEN Fail(r) /\ UNCHANGED collection
       ELSE /\ collection' = [Collection({}) EXCEPT !.by = r]
            /\ run' = [run EXCEPT ![r].pc = "upsert"]
            /\ UNCHANGED progress
    /\ UNCHANGED <<callVars, detectVars, sessVars, database, chatVars>>

\* collection.upsert(documents=documents, metadatas=metadata, ids=ids)
UpsertedReplacingAll(items, chunks) == chunks
Upserted(items, chunks) ==
    {c \in items : \A n \in chunks : n.id # c.id} \cup chunks

\* the store validates the ids of an upsert: with an id listed twice it
\* raises DuplicateIDError, or, where it does not validate, keeps one entry
Upsert(r) ==
    /\ run[r].pc = "upsert"
    /\ \E validates \in BOOLEAN :
          IF \/ ~(collection.exists /\ collection.by = r)
             \/ ~Distinct(run[r].ids) /\ validates
          THEN Fail(r) /\ UNCHANGED collection
          ELSE /\ collection' = [collection EXCEPT !.items = Upserted(@, run[r].chunks)]
               /\ run' = [run EXCEPT ![r].pc = "sync_time"]
               /\ UNCHANGED progress
    /\ UNCHANGED <<callVars, detectVars, sessVars, database, chatVars>>

\* self.update_sync_time(collection, current_time), and return True
UpdateSyncTime(r) ==
    /\ run[r].pc = "sync_time"
    /\ IF ~(collection.exists /\ collection.by = r)
       THEN Fail(r) /\ UNCHANGED collection
       ELSE /\ collection' = [collection EXCEPT !.items = Upserted(@, {SyncMetadata}),
                                                !.last_sync = now]
            /\ run' = Returned(r, TRUE)
            /\ set_progress("completed", "Completed")
    /\ UNCHANGED <<callVars, detectVars, sessVars, database, chatVars>>

(***************************************************************************)
(* process_prompt, one step per call that reads or writes shared state or  *)
(* calls the completion API.                                               *)
(***************************************************************************)
Workers == {"w1", "w2"}
\* the conversationSession values of the requests
ChatSessionIds == {"s1"}
Kinds == {"closing", "confirmation", "question"}
Langs == {"tagalog", "mixed", "english"}
\* the prompts sent: what _is_closing_message and _is_confirmation_query make
\* of each, and the language _detect_language finds
Prompts ==
    {[kind |-> "closing", lang |-> "english"],
     [kind |-> "confirmation", lang |-> "english"],
     [kind |-> "question", lang |-> "tagalog"],
     [kind |-> "question", lang |-> "mixed"],
     [kind |-> "question", lang |-> "english"]}
\* number of chat requests, and of exchanges stored before the first of them
MaxTurns == 2
MaxPre == 3
\* SessionManager(max_history_per_session=4), and the history[-8:] kept
ChatMaxHistory == 4
HistoryKept == 8

UserEntry(n) == [role |-> "user", content |-> <<"prompt", n>>]
AssistantEntry(r) == [role |-> "assistant", content |-> r]
NoAnswer == <<"", 0>>
LlmAnswer(n) == <<"llm", n>>

\* the canned messages of process_prompt, by detected language of the prompt
SyncResponse(lang) ==
    IF lang = "tagalog" THEN <<"loading_tl", 0>> ELSE <<"loading_en", 0>>
NoInfoResponseTagalogForMixed(lang) ==
    IF lang = "english" THEN <<"noinfo_en", 0>> ELSE <<"noinfo_tl", 0>>
NoInfoResponse(lang) ==
    IF lang = "tagalog" THEN <<"noinfo_tl", 0>> ELSE <<"noinfo_en", 0>>

IdleTurn ==
    [pc |-> "idle", sid |-> "s1", prompt |-> 0, kind |-> "question",
     lang |-> "english", history |-> <<>>, calls |-> {}, retrieved |-> FALSE,
     is_translated |-> FALSE, context |-> <<>>, admitted |-> 0,
     has_archived_content |-> FALSE,
     ai_response |-> NoAnswer, success |-> FALSE, response |-> NoAnswer]

\* k earlier exchanges, numbered -k .. -1
PreHistory(k) ==
    [i \in 1..(2 * k) |->
        IF i % 2 = 1 THEN UserEntry(((i + 1) \div 2) - k - 1)
        ELSE AssistantEntry(LlmAnswer((i \div 2) - k - 1))]

Goto(w, pc) == [turn EXCEPT ![w].pc = pc]

\* the locals that outlive the call: what the request was and what it returned
\* or raised
Finished(t, pc, success, response) ==
    [IdleTurn EXCEPT !.pc = pc, !.sid = t.sid, !.prompt = t.prompt, !.kind = t.kind,
                     !.lang = t.lang, !.calls = t.calls, !.retrieved = t.retrieved,
                     !.admitted = t.admitted,
                     !.success = success, !.response = response]

Free(w) == turn[w].pc \in {"idle", "done", "raised"}

\* a request arrives and is served by the first free worker; detect_intent
\* only calls the embedding API and turns every failure into "general"
ReceivePrompt(w) ==
    /\ Free(w)
    /\ w = "w2" => ~Free("w1")
    /\ nturns < MaxTurns
    /\ nturns' = nturns + 1
    /\ \E sid \in ChatSessionIds, p \in Prompts :
          turn' = [turn EXCEPT ![w] = [IdleTurn EXCEPT !.pc = "session_exists",
                                          !.sid = sid, !.prompt = nturns + 1,
                                          !.kind = p.kind, !.lang = p.lang]]
    /\ UNCHANGED <<callVars, detectVars, sessVars, kbVars, syncVars, written, lastWrite>>

\* if not self.session_manager.session_exists(conversation_session)
CheckSession(w) ==
    /\ turn[w].pc = "session_exists"
    /\ turn' = Goto(w, IF session_exists(turn[w].sid) THEN "get_history"
                       ELSE "create_session")
    /\ UNCHANGED <<callVars, detectVars, sessVars, kbVars, syncVars, nturns, written, lastWrite>>

\* self.session_manager.create_session(conversation_session, request.username)
CreateSession(w) ==
    /\ turn[w].pc = "create_session"
    /\ sessions' = Created(sessions, turn[w].sid)
    /\ turn' = Goto(w, "get_history")
    /\ UNCHANGED <<callVars, detectVars, max_history_per_session, now, kbVars, syncVars, nturns, written, lastWrite>>

\* history = self.session_manager.get_session_history(conversation_session)
GetHistory(w) ==
    /\ turn[w].pc = "get_history"
    /\ sessions' = Touched(sessions, turn[w].sid)
    /\ turn' = [turn EXCEPT ![w].history = HistoryOf(turn[w].sid),
                            ![w].pc = IF turn[w].kind = "closing" THEN "closing"
                                      ELSE "sync_ready"]
    /\ UNCHANGED <<callVars, detectVars, max_history_per_session, now, kbVars, syncVars, nturns, written, lastWrite>>

\* _call_llm and the completion call of process_prompt: an exception of the
\* completion API is not caught
CallLlm(w, purpose, ok) ==
    LET t == [turn[w] EXCEPT !.calls = @ \cup {purpose}]
    IN turn' = [turn EXCEPT ![w] =
                    IF ok THEN [t EXCEPT !.ai_response = LlmAnswer(t.prompt),
                                         !.context = <<>>,
                                         !.pc = "update_history"]
                    ELSE Finished(t, "raised", FALSE, NoAnswer)]

\* _generate_closing_response(prompt, history)
GenerateClosing(w) ==
    /\ turn[w].pc = "closing"
    /\ \E ok \in BOOLEAN : CallLlm(w, "closing", ok)
    /\ UNCHANGED <<callVars, detectVars, sessVars, kbVars, syncVars, nturns, written, lastWrite>>

\* _is_confirmation_query(prompt, history) with a last assistant message
IsConfirmation(t) ==
    /\ t.kind = "confirmation"
    /\ \E i \in 1..Len(t.history) : t.history[i].role = "assistant"

\* if not self._is_sync_ready(): the canned message, no history update
CheckSyncReady(w) ==
    /\ turn[w].pc = "sync_ready"
    /\ \E store_ok \in BOOLEAN :
          /\ collection' = IF progress.status = "completed" /\ store_ok
                           THEN GotOrCreated(collection) ELSE collection
          /\ IF ~is_sync_ready(store_ok)
             THEN turn' = [turn EXCEPT ![w] =
                              Finished(turn[w], "done", TRUE, SyncResponse(turn[w].lang))]
             ELSE turn' = Goto(w, IF IsConfirmation(turn[w]) THEN "confirmation"
                                  ELSE "rewrite")
    /\ UNCHANGED <<callVars, detectVars, sessVars, progress, syncVars, nturns, written, lastWrite>>

\* _generate_confirmation_response(prompt, last_answer, history)
GenerateConfirmation(w) ==
    /\ turn[w].pc = "confirmation"
    /\ \E ok \in BOOLEAN : CallLlm(w, "confirmation", ok)
    /\ UNCHANGED <<callVars, detectVars, sessVars, kbVars, syncVars, nturns, written, lastWrite>>

\* rewrite_query_for_retrieval and _translate_to_english: the rewrite calls
\* the completion API and falls back to the prompt; the translation is called
\* when the rewritten query is not detected as English
RewriteQuery(w) ==
    /\ turn[w].pc = "rewrite"
    /\ \E rewritten \in BOOLEAN, qlang \in Langs, translated \in BOOLEAN :
          /\ ~rewritten => qlang = turn[w].lang
          /\ translated => qlang # "english"
          /\ turn' = [turn EXCEPT
                 ![w].calls = @ \cup {"rewrite"}
                                \cup (IF qlang # "english" THEN {"translate"} ELSE {}),
                 ![w].is_translated = translated,
                 ![w].pc = "retrieve"]
    /\ UNCHANGED <<callVars, detectVars, sessVars, kbVars, syncVars, nturns, written, lastWrite>>

\* context, has_archived_content = self._retrieve_context(...), and the
\* fixed answer when there is no context
RetrieveContext(w) ==
    /\ turn[w].pc = "retrieve"
    /\ \E r \in {[retrieve_context(collection, q, turn[w].is_translated, out)
                       EXCEPT !.reached = \E i \in DOMAIN out : out[i] # "fails"] :
                   q \in Queries, out \in [{"archived", "current"} -> StoreOutcomes]} :
             /\ collection' = IF r.reached THEN GotOrCreated(collection) ELSE collection
             /\ turn' = [turn EXCEPT
                    ![w].retrieved = TRUE,
                    ![w].context = r.context,
                    ![w].admitted = Len(r.context),
                    ![w].has_archived_content = r.has_archived_content,
                    ![w].ai_response = IF r.context = <<>>
                                       THEN NoInfoResponse(turn[w].lang) ELSE @,
                    ![w].pc = IF r.context = <<>> THEN "update_history" ELSE "answer"]
    /\ UNCHANGED <<callVars, detectVars, sessVars, progress, syncVars, nturns, written, lastWrite>>

\* self.openai_client.chat.completions.create(...) of process_prompt
GenerateAnswer(w) ==
    /\ turn[w].pc = "answer"
    /\ \E ok \in BOOLEAN : CallLlm(w, "answer", ok)
    /\ UNCHANGED <<callVars, detectVars, sessVars, kbVars, syncVars, nturns, written, lastWrite>>

\* what _update_conversation_history hands to update_history
Exchange(t) == t.history \o <<UserEntry(t.prompt), AssistantEntry(t.ai_response)>>

\* _update_conversation_history(...) and the return of the response
UpdateConversationHistory(w) ==
    /\ turn[w].pc = "update_history"
    /\ sessions' = Replaced(sessions, turn[w].sid, LastN(Exchange(turn[w]), HistoryKept))
    /\ turn' = [turn EXCEPT ![w] = Finished(turn[w], "done", TRUE, turn[w].ai_response)]
    /\ written' = written \cup {LastN(Exchange(turn[w]), HistoryKept)}
    /\ lastWrite' = DictSet(lastWrite, turn[w].sid, LastN(Exchange(turn[w]), HistoryKept))
    /\ UNCHANGED <<callVars, detectVars, max_history_per_session, now, kbVars, syncVars, nturns>>

(***************************************************************************)
(* Chat turns of concurrent workers against a knowledge base in one of the *)
(* states a sync run leaves behind.                                        *)
(***************************************************************************)
K1 == Chunk(<<"handbook", 1>>, 0, FALSE, NoProgram, 2024)
K2 == Chunk(<<"handbook", 2>>, 0, TRUE, NoProgram, 2020)
K3 == Chunk(<<"course", 1>>, 0, FALSE, "bsit", 0)
K4 == Chunk(<<"faq", 1>>, 0, FALSE, NoProgram, 0)

SampleCollections ==
    {NoCollection, Collection({SyncMetadata}),
     Collection({SyncMetadata, K1, K2}),
     Collection({SyncMetadata, K1, K2, K3, K4})}

SampleProgress ==
    {Progress("idle", ""), Progress("running", "Chunking"),
     Progress("completed", "Completed"), Progress("error", "Scraping")}

StoredSession(history) == [history |-> history, last_accessed |-> 0]

InitChat ==
    /\ max_history_per_session = ChatMaxHistory
    /\ \E k \in {0, MaxPre} :
          sessions \in {<<>>, [sid \in ChatSessionIds |-> StoredSession(PreHistory(k))]}
    /\ now = 0
    /\ progress \in SampleProgress
    /\ collection \in SampleCollections
    /\ database = EmptyDatabase
    /\ run = [r \in Runs |-> IdleRun]
    /\ turn = [w \in Workers |-> IdleTurn]
    /\ nturns = 0
    /\ written = {<<>>} \cup {sessions[sid].history : sid \in DOMAIN sessions}
    /\ lastWrite = <<>>
    /\ call = NoCall
    /\ value = NoCall
    /\ last_processed_ids = {}
    /\ touched = {}

NextChat ==
    \E w \in Workers :
        \/ ReceivePrompt(w)
        \/ CheckSession(w)
        \/ CreateSession(w)
        \/ GetHistory(w)
        \/ GenerateClosing(w)
        \/ CheckSyncReady(w)
        \/ GenerateConfirmation(w)
        \/ RewriteQuery(w)
        \/ RetrieveContext(w)
        \/ GenerateAnswer(w)
        \/ UpdateConversationHistory(w)

SpecChat == InitChat /\ [][NextChat]_vars

\* the pcs at which a turn holds the history it read
Reading == {"closing", "sync_ready", "confirmation", "rewrite", "retrieve",
            "answer", "update_history"}

\* C3: with chat turns running concurrently on one session id, every history
\* a turn has read is the initial one or exactly what a single turn wrote, and
\* once all turns have finished the stored history is the one written last.
C3_ConsistentHistory ==
    /\ \A w \in Workers : turn[w].pc \in Reading => turn[w].history \in written
    /\ (\A w \in Workers : Free(w)) =>
           \A sid \in DOMAIN lastWrite : HistoryOf(sid) = lastWrite[sid]

\* the readiness condition of the guard: status "completed" and more than
\* one item in the collection
Ready == progress.status = "completed" /\ Count(collection) > 1

\* C4 as stated: while the knowledge base is not ready, every chat turn ends
\* with the still-loading message, without retrieval and without a call to
\* the completion model.
C4_NotReadyEveryTurn ==
    \A w \in Workers :
        (turn[w].pc \in {"done", "raised"} /\ ~Ready) =>
            /\ turn[w].pc = "done"
            /\ turn[w].response =
                   (IF turn[w].lang = "tagalog" THEN <<"loading_tl", 0>>
                    ELSE <<"loading_en", 0>>)
            /\ ~turn[w].retrieved
            /\ turn[w].calls = {}

\* C4 amended: while the knowledge base is not ready, every chat turn whose
\* prompt is not a closing message ends with the still-loading message (in
\* Tagalog for a Tagalog prompt), without retrieval and without a call to the
\* completion model.
C4_NotReadyCanned ==
    \A w \in Workers :
        (turn[w].pc \in {"done", "raised"} /\ ~Ready /\ turn[w].kind # "closing") =>
            /\ turn[w].pc = "done"
            /\ turn[w].response =
                   (IF turn[w].lang = "tagalog" THEN <<"loading_tl", 0>>
                    ELSE <<"loading_en", 0>>)
            /\ ~turn[w].retrieved
            /\ turn[w].calls = {}

\* C4 witness: a Tagalog question answered with the Tagalog still-loading
\* message after a completed sync left only the reserved entry
C4_Witness ==
    \E w \in Workers :
        /\ turn[w].pc = "done"
        /\ turn[w].kind = "question"
        /\ turn[w].lang = "tagalog"
        /\ progress.status = "completed"
        /\ Count(collection) = 1
        /\ turn[w].response = <<"loading_tl", 0>>

\* C7: no failure escapes process_prompt as an exception; every request that
\* has ended has a response body.
C7_NeverRaises ==
    \A w \in Workers :
        /\ turn[w].pc # "raised"
        /\ turn[w].pc = "done" => turn[w].response # NoAnswer

\* C8 as stated: a turn whose retrieval admitted no chunk made no call to the
\* completion API and returned the fixed no-information message in the
\* language of the prompt.
C8_NoContextNoCompletion ==
    \A w \in Workers :
        (turn[w].pc = "done" /\ turn[w].retrieved /\ turn[w].admitted = 0) =>
            /\ turn[w].calls = {}
            /\ turn[w].response =
                   (IF turn[w].lang = "tagalog" THEN <<"noinfo_tl", 0>>
                    ELSE <<"noinfo_en", 0>>)

\* C8 amended: a turn whose retrieval admitted no chunk called the completion
\* API only to rewrite and to translate the query before retrieval, never to
\* generate the answer, and returned the fixed no-information message in
\* Tagalog for a Tagalog prompt and in English otherwise.
C8_NoContextFixedMessage ==
    \A w \in Workers :
        (turn[w].pc = "done" /\ turn[w].retrieved /\ turn[w].admitted = 0) =>
            /\ turn[w].calls \subseteq {"rewrite", "translate"}
            /\ turn[w].response =
                   (IF turn[w].lang = "tagalog" THEN <<"noinfo_tl", 0>>
                    ELSE <<"noinfo_en", 0>>)

\* C8 witness: a mixed-language question whose retrieval admitted nothing got
\* the English message
C8_Witness ==
    \E w \in Workers :
        /\ turn[w].pc = "done"
        /\ turn[w].retrieved
        /\ turn[w].admitted = 0
        /\ turn[w].lang = "mixed"
        /\ turn[w].response = <<"noinfo_en", 0>>

\* C30: the history stored for a session has even length at most 8 and
\* alternates user, assistant from a user entry, and it holds the prompt and
\* the answer of every finished turn that stored its exchange, next to each
\* other.
C30_PairsStored ==
    \A sid \in DOMAIN sessions :
        LET h == sessions[sid].history
        IN /\ Len(h) % 2 = 0
           /\ Len(h) <= 8
           /\ \A i \in 1..Len(h) :
                 h[i].role = IF i % 2 = 1 THEN "user" ELSE "assistant"
           /\ \A w \in Workers :
                 (/\ turn[w].pc = "done"
                  /\ turn[w].sid = sid
                  /\ turn[w].response \notin {SyncResponse(lang) : lang \in Langs}) =>
                     \E i \in 1..(Len(h) - 1) :
                         /\ h[i] = [role |-> "user", content |-> <<"prompt", turn[w].prompt>>]
                         /\ h[i + 1] = [role |-> "assistant", content |-> turn[w].response]

(***************************************************************************)
(* Sync runs, the startup one and those requested through POST /admin/sync, *)
(* over a database drawn from sample rows.                                 *)
(***************************************************************************)
\* most rows of the sample database
MaxRows == 4

\* handbooks 1 and 2 differ in the revision year only, handbook 3 has no
\* revision year and is the newest, handbook 4 does not decode; courses 1
\* and 2 tie, course 3 is archived already; the question of faq 3 is empty
SampleRows ==
    {Row("handbook", 1, "student_handbook", 2024, 2, 1, TRUE, FALSE),
     Row("handbook", 2, "student_handbook", 2020, 2, 1, TRUE, FALSE),
     Row("handbook", 3, "student_handbook", 0, 0, 3, TRUE, FALSE),
     Row("handbook", 4, "student_handbook", 0, 0, 1, FALSE, FALSE),
     Row("course", 1, "course_bsit", 2023, 1, 1, TRUE, FALSE),
     Row("course", 2, "course_bsit", 2023, 1, 1, TRUE, FALSE),
     Row("course", 3, "course_bsit", 2025, 1, 2, TRUE, TRUE),
     Row("faq", 1, "unknown", 0, 0, 1, TRUE, FALSE),
     Row("faq", 2, "unknown", 0, 0, 2, TRUE, FALSE),
     Row("faq", 3, "unknown", 0, 0, 3, FALSE, FALSE)}

TlcAbout == Url(<<"https://", "tlc", ".", "edu", "/", "about">>, 1)
SampleUrls == {TlcAbout}

\* startup_event has started the thread of run 0
InitSync ==
    /\ max_history_per_session = ChatMaxHistory
    /\ sessions = <<>>
    /\ now = 0
    /\ progress = Progress("idle", "")
    /\ collection \in {NoCollection, Collection({SyncMetadata, K1, K2})}
    /\ \E rows \in {S \in SUBSET SampleRows : Cardinality(S) <= MaxRows},
          urls \in SUBSET SampleUrls :
          database = [rows |-> rows, urls |-> urls]
    /\ run = [r \in Runs |-> IF r = 0 THEN [IdleRun EXCEPT !.pc = "scheduled"]
                             ELSE IdleRun]
    /\ turn = [w \in Workers |-> IdleTurn]
    /\ nturns = 0
    /\ written = {}
    /\ lastWrite = <<>>
    /\ call = NoCall
    /\ value = NoCall
    /\ last_processed_ids = {}
    /\ touched = {}

NextSync ==
    \E r \in Runs :
        \/ trigger_sync(r)
        \/ Begin(r)
        \/ Connect(r)
        \/ Collect(r)
        \/ Analyze(r)
        \/ ChunkDocuments(r)
        \/ Scrape(r)
        \/ WriteBack(r)
        \/ DeleteCollection(r)
        \/ CreateCollection(r)
        \/ Upsert(r)
        \/ UpdateSyncTime(r)

SpecSync == InitSync /\ [][NextSync]_vars

\* C5: at most one sync run is executing at any time.
C5_OneRunAtATime ==
    \A r, q \in Runs : (Executing(r) /\ Executing(q)) => r = q

\* C6: the progress a run reports only moves forward: from idle, completed
\* or error to running at Starting, while running to a later step label, and
\* from running to completed or error.
C6_ProgressForward ==
    [][progress' # progress =>
          \/ /\ progress.status # "running"
             /\ progress' = Progress("running", "Starting")
          \/ /\ progress.status = "running"
             /\ progress'.status = "running"
             /\ StepIndex(progress'.step) > StepIndex(progress.step)
          \/ /\ progress.status = "running"
             /\ progress'.status \in {"completed", "error"}]_vars

\* the runs whose classification is at hand
Classified == {r \in Runs : run[r].pc = "chunk"}
DocsOf(r) == {run[r].documents_data[i] : i \in 1..Len(run[r].documents_data)}

\* C9: the classifier reports every FAQ as current, and every FAQ and
\* web-page chunk of the collection has is_archived = false.
C9_FaqAndWebNeverArchived ==
    /\ \A r \in Classified : \A d \in DocsOf(r) :
           d.type = "faq" => ~run[r].archive_status[DocId(d)]
    /\ \A c \in collection.items : c.id[1] \in {"faq", "url"} => ~c.is_archived

\* C10: in every group determine_archive_status forms, exactly one document
\* is current: the only one of a single-document group, and in a larger
\* group a top-ranked one, every other document being archived.
C10_OneCurrentPerGroup ==
    \A r \in Classified :
        /\ DOMAIN run[r].archive_status = {DocId(d) : d \in DocsOf(r)}
        /\ \A key \in {group_key(d) : d \in DocsOf(r)} :
              LET members == {d \in DocsOf(r) : group_key(d) = key}
                  current == {d \in members : ~run[r].archive_status[DocId(d)]}
              IN /\ Cardinality(current) = 1
                 /\ \A d \in current : \A e \in members :
                        ~TupleLess(SortKey(d), SortKey(e))

\* C10 witness: a classified run with a group of two handbooks, the one
\* revised in 2020 archived and the one revised in 2024 current, next to a
\* course group of a single document, which is current
C10_Witness ==
    \E r \in Classified :
        /\ {d.id : d \in {e \in DocsOf(r) : e.type \in {"handbook", "course"}}}
               = {<<"handbook", 1>>, <<"handbook", 2>>, <<"course", 1>>}
        /\ run[r].archive_status[<<"handbook", 2>>]
        /\ ~run[r].archive_status[<<"handbook", 1>>]
        /\ ~run[r].archive_status[<<"course", 1>>]

\* C11: in a group of two or more documents the current document is a maximum
\* of (has_revision_info, revision_year, mentions, updated_at); a document
\* without a revision year is archived when the group holds one with a
\* revision year; of two documents that differ only in the revision years
\* 2024 and 2020 the second is archived, and the first is current when they
\* are the whole group.
C11_CurrentIsMaximum ==
    \A r \in Classified : \A d, e \in DocsOf(r) :
        (group_key(d) = group_key(e) /\ d # e) =>
            /\ ~run[r].archive_status[DocId(d)] =>
                   ~TupleLess(<<IF d.year # 0 THEN 1 ELSE 0, d.year, d.mentions,
                                d.updated_at>>,
                              <<IF e.year # 0 THEN 1 ELSE 0, e.year, e.mentions,
                                e.updated_at>>)
            /\ (d.year # 0 /\ e.year = 0) => run[r].archive_status[DocId(e)]
            /\ (/\ d.year = 2024 /\ e.year = 2020
                /\ d.mentions = e.mentions /\ d.updated_at = e.updated_at) =>
                   /\ run[r].archive_status[DocId(e)]
                   /\ {DocId(x) : x \in {y \in DocsOf(r) : group_key(y) = group_key(d)}}
                          = {DocId(d), DocId(e)} => ~run[r].archive_status[DocId(d)]

\* C11 witness: the handbooks revised in 2024 and in 2020 and the newer one
\* without a revision year are classified together; the first is current,
\* the other two are archived
C11_Witness ==
    \E r \in Classified :
        /\ {DocId(d) : d \in DocsOf(r)}
               = {<<"handbook", 1>>, <<"handbook", 2>>, <<"handbook", 3>>}
        /\ ~run[r].archive_status[<<"handbook", 1>>]
        /\ run[r].archive_status[<<"handbook", 2>>]
        /\ run[r].archive_status[<<"handbook", 3>>]

\* C14: a run that collected zero documents (it returns from the check that
\* follows scraping) reports success, and its return leaves the collection
\* and the database as they were.
C14_ZeroDocumentsSucceeds ==
    [][\A r \in Runs :
          (run[r].pc = "scrape" /\ run'[r].pc = "returned") =>
              /\ run'[r].result
              /\ collection' = collection
              /\ database' = database]_vars

\* C15: when a run returns success, the collection exists and holds exactly
\* the chunks that run collected and the _sync_metadata entry; nothing an
\* earlier run or process published is left.
C15_PublishedExactly ==
    [][\A r \in Runs :
          (run[r].pc = "sync_time" /\ run'[r].pc = "returned" /\ run'[r].result) =>
              /\ collection'.exists
              /\ collection'.items = run[r].chunks \cup {SyncMetadata}
              /\ \A c \in collection'.items : c.id = MetaId \/ c.id[1] = "url"]_vars

\* C15 witness: the startup run and the requested run have both returned
\* success, and the collection is the one the requested run created, holding
\* the scraped page and _sync_metadata
C15_Witness ==
    /\ run[0].pc = "returned" /\ run[0].result
    /\ run[1].pc = "returned" /\ run[1].result
    /\ collection.exists /\ collection.by = 1
    /\ collection.items = {UrlChunk(TlcAbout), SyncMetadata}

\* the handbook and course rows with archive_at set
ArchivedRows(db) ==
    {d.id : d \in {e \in db.rows : e.type \in {"handbook", "course"} /\ e.archive_at}}

C17_ClassificationConsumed ==
    [][\A r \in Runs :
          (/\ run[r].pc \in {"chunk", "scrape", "write_back", "delete", "create",
                              "upsert", "sync_time"}
           /\ run[r].documents_data # <<>>
           /\ run'[r].pc = "returned") =>
              \A d \in DocsOf(r) :
                  /\ (d.type \in {"handbook", "course"}
                         /\ run[r].archive_status[DocId(d)]) =>
                        \E e \in database'.rows : e.id = d.id /\ e.archive_at
                  /\ \A c \in collection'.items :
                        (c.id[1] = d.id[1] /\ c.id[2] = d.id[2]) =>
                            c.is_archived = run[r].archive_status[DocId(d)]]_vars

(***************************************************************************)
(* Single calls of the retrieval functions, on arguments drawn from the    *)
(* sample chunks, queries and store behaviours.                            *)
(***************************************************************************)
\* the collections a call reads: those of the chat turns and one that holds
\* current chunks only
RetrievalCollections == SampleCollections \cup {Collection({SyncMetadata, K1, K3})}

\* result lists as the store returns them: nearest first
ResultLists == {Nearest(S) : S \in SUBSET {K1, K2, K3, K4}}

ExtractCalls ==
    {[fn |-> "extract_context_from_results", results |-> results,
      threshold |-> threshold] :
        results \in ResultLists,
        threshold \in {RELEVANCE_THRESHOLD, TRANSLATED_RELEVANCE_THRESHOLD}}

RetrieveCalls ==
    {[fn |-> "retrieve_context", coll |-> coll, q |-> q,
      is_translated |-> is_translated, out |-> out] :
        coll \in RetrievalCollections, q \in Queries, is_translated \in BOOLEAN,
        out \in [{"archived", "current"} -> StoreOutcomes]}

\* longest sample query, in words
MaxWords == 2

Vocabulary ==
    {Word("1899", 1899, FALSE, FALSE), Word("1900", 1900, FALSE, FALSE),
     Word("2019", 2019, FALSE, FALSE), Word("2099", 2099, FALSE, FALSE),
     Word("2100", 2100, FALSE, FALSE), Word("12019", 12019, FALSE, FALSE),
     Word("was", -1, TRUE, FALSE), Word("current", -1, FALSE, TRUE),
     Word("know", -1, FALSE, TRUE), Word("fee", -1, FALSE, FALSE)}

ArchiveCalls ==
    [fn : {"should_include_archived"}, query : SeqsUpTo(Vocabulary, MaxWords)]

InitRetrieval ==
    /\ max_history_per_session = ChatMaxHistory
    /\ sessions = <<>>
    /\ now = 0
    /\ progress = Progress("completed", "Completed")
    /\ collection = NoCollection
    /\ database = EmptyDatabase
    /\ run = [r \in Runs |-> IdleRun]
    /\ turn = [w \in Workers |-> IdleTurn]
    /\ nturns = 0
    /\ written = {}
    /\ lastWrite = <<>>
    /\ call \in ExtractCalls \cup RetrieveCalls \cup ArchiveCalls
    /\ value = NoCall
    /\ last_processed_ids = {}
    /\ touched = {}

\* self._extract_context_from_results(results, threshold)
ExtractContext ==
    /\ call.fn = "extract_context_from_results"
    /\ value = NoCall
    /\ value' = [fn |-> call.fn,
                 context |-> extract_context_from_results(call.results, call.threshold)]
    /\ UNCHANGED <<sessVars, kbVars, syncVars, chatVars, detectVars, call>>

\* self._retrieve_context(retrieval_query, prompt, translated_query)
Retrieve ==
    /\ call.fn = "retrieve_context"
    /\ value = NoCall
    /\ value' = [fn |-> call.fn,
                 returned |-> retrieve_context(call.coll, call.q, call.is_translated,
                                               call.out)]
    /\ UNCHANGED <<sessVars, kbVars, syncVars, chatVars, detectVars, call>>

\* self.version_detector.should_include_archived(prompt)
ShouldIncludeArchived ==
    /\ call.fn = "should_include_archived"
    /\ value = NoCall
    /\ value' = [fn |-> call.fn,
                 returned |-> should_include_archived(
                                  QueryFeatures(call.query, NoProgram))]
    /\ UNCHANGED <<sessVars, kbVars, syncVars, chatVars, detectVars, call>>

NextRetrieval == ExtractContext \/ Retrieve \/ ShouldIncludeArchived

SpecRetrieval == InitRetrieval /\ [][NextRetrieval]_vars

\* the threshold a _retrieve_context call applies
ThresholdOf(c) ==
    IF c.is_translated THEN TRANSLATED_RELEVANCE_THRESHOLD ELSE RELEVANCE_THRESHOLD

\* C12: a retrieved chunk is in the assembled context exactly when its
\* similarity 1 - distance/2 is at least the threshold; at threshold 0.30 a
\* chunk at distance 0.2 is included and one at distance 1.6 is excluded; the
\* context of a retrieval holds no chunk below 0.30, or 0.25 when the query
\* was translated.
C12_AdmittedIffAtThreshold ==
    /\ value.fn = "extract_context_from_results" =>
           \A i \in 1..Len(call.results) :
               LET id == call.results[i].id
                   included == \E j \in 1..Len(value.context) : value.context[j] = id
               IN /\ included <=> 100 - 5 * Distance(id) >= call.threshold
                  /\ (call.threshold = 30 /\ Distance(id) = 2) => included
                  /\ (call.threshold = 30 /\ Distance(id) = 16) => ~included
    /\ value.fn = "retrieve_context" =>
           \A j \in 1..Len(value.returned.context) :
               100 - 5 * Distance(value.returned.context[j])
                   >= (IF call.is_translated THEN 25 ELSE 30)

\* C12 witness: at threshold 0.30 the result list holds the handbook chunk at
\* distance 0.2, the chunk at distance 1.4 (similarity exactly 0.30) and the
\* FAQ chunk at distance 1.6; the context is the first two
C12_Witness ==
    /\ value.fn = "extract_context_from_results"
    /\ call.threshold = 30
    /\ call.results = <<K1, K2, K4>>
    /\ value.context = <<K1.id, K2.id>>

\* the archived chunks of a call's collection that its archived filter
\* matches and its threshold admits
AdmissibleArchived(c) ==
    {k \in c.coll.items :
        /\ Matches(Where(TRUE, IF c.q.program_id # NoProgram THEN c.q.program_id
                                ELSE AnyProgram), k)
        /\ ~(Similarity(k) < ThresholdOf(c))}

\* C13: when a retrieval includes both archived and current content, it
\* flags the response as containing archived content only if the collection
\* holds an archived chunk that the archived filter matches and the threshold
\* admits; when there is none the flag is false and the context is the one
\* of the current chunks.
C13_ArchivedFlagOnlyWithArchivedChunk ==
    (/\ value.fn = "retrieve_context"
     /\ should_include_archived(call.q).include_archived
     /\ ~should_include_archived(call.q).archived_only
     /\ AdmissibleArchived(call) = {}) =>
        /\ ~value.returned.has_archived_content
        /\ \A j \in 1..Len(value.returned.context) :
               \E k \in call.coll.items :
                   k.id = value.returned.context[j] /\ ~k.is_archived

\* C21: should_include_archived follows the table.  A query with a 4-digit
\* year between 1900 and 2099 gives include_archived, not archived_only, that
\* year (the first one) as specific_year and prefer_year, whatever keywords
\* occur; otherwise historical keywords alone give archived-only, historical
\* and current keywords give include-both, and current keywords alone or no
\* keyword give include_archived false.
C21_ArchiveModeTable ==
    value.fn = "should_include_archived" =>
        LET words == {call.query[i] : i \in 1..Len(call.query)}
            years == {i \in 1..Len(call.query) :
                         call.query[i].text \in {"1900", "2019", "2099"}}
            historical == \E w \in words : w.text = "was"
            current == \E w \in words : w.text \in {"current", "know"}
            r == value.returned
        IN IF years # {}
           THEN /\ r.include_archived /\ ~r.archived_only /\ r.prefer_year
                /\ r.specific_year
                       = call.query[CHOOSE i \in years : \A j \in years : i <= j].number
           ELSE /\ r.specific_year = 0 /\ ~r.prefer_year
                /\ r.include_archived = historical
                /\ r.archived_only = (historical /\ ~current)

\* C21 witness: "was 2019" has a historical keyword and a year, and the year
\* decides
C21_Witness ==
    /\ value.fn = "should_include_archived"
    /\ Len(call.query) = 2
    /\ call.query[1].text = "was" /\ call.query[2].text = "2019"
    /\ value.returned.specific_year = 2019
    /\ ~value.returned.archived_only

\* C29: when the query names no year and has no historical keyword, every
\* chunk admitted into the context has is_archived false, whether the store
\* answers, fails once or fails.
C29_CurrentOnlyAdmitsNoArchived ==
    (/\ value.fn = "retrieve_context"
     /\ call.q.year = 0
     /\ ~call.q.historical) =>
        /\ ~value.returned.has_archived_content
        /\ \A j \in 1..Len(value.returned.context) :
               \A k \in call.coll.items :
                   k.id = value.returned.context[j] => ~k.is_archived

\* a current-only query for a program with no chunk of its own, answered on
\* the exception path from a collection whose archived chunk is near enough
C29_Witness ==
    /\ value.fn = "retrieve_context"
    /\ call.q = Query(0, FALSE, FALSE, "bsit")
    /\ call.out["current"] = "fails_once"
    /\ K2 \in call.coll.items
    /\ ~(Similarity(K2) < ThresholdOf(call))
    /\ value.returned.context = <<K1.id>>

(***************************************************************************)
(* Messages appended one at a time to a fresh session.                     *)
(***************************************************************************)
\* largest max_history_per_session and most messages appended
MaxAppendM == 4
MaxAppends == 10

\* the k-th message a caller appends; first is the role of message 1
Message(k, first) ==
    [role |-> IF k % 2 = 1 THEN first ELSE CHOOSE x \in Roles : x # first,
     content |-> k]

\* create_session(sid) has returned, and the caller is about to append
\* Message(1), ..., Message(call.n)
InitAppend ==
    /\ max_history_per_session \in 0..MaxAppendM
    /\ now = 0
    /\ \E sid \in SessionIds, n \in 0..MaxAppends, first \in Roles :
          /\ sessions = Created(<<>>, sid)
          /\ call = [fn |-> "add_to_history", sid |-> sid, n |-> n,
                     messages |-> [k \in 1..n |-> Message(k, first)]]
    /\ value = [fn |-> "add_to_history", appended |-> 0]
    /\ last_processed_ids = {}
    /\ touched = {}
    /\ progress = Progress("idle", "")
    /\ collection = NoCollection
    /\ database = EmptyDatabase
    /\ run = [r \in Runs |-> IdleRun]
    /\ turn = [w \in Workers |-> IdleTurn]
    /\ nturns = 0
    /\ written = {}
    /\ lastWrite = <<>>

\* the next add_to_history(session_id, role, content) call of the caller
AppendNext ==
    /\ value.appended < call.n
    /\ LET message == call.messages[value.appended + 1]
       IN add_to_history(call.sid, message.role, message.content)
    /\ value' = [value EXCEPT !.appended = @ + 1]
    /\ UNCHANGED <<call, detectVars>>

NextAppend == AppendNext

SpecAppend == InitAppend /\ [][NextAppend]_vars

\* C18: after n messages were appended one at a time to a fresh session with
\* max_history_per_session = m, the history is the last min(n, 2m) of them in
\* the order they were appended.
C18_LastAppended ==
    LET n == value.appended
        kept == IF n <= 2 * max_history_per_session THEN n
                ELSE 2 * max_history_per_session
    IN sessions[call.sid].history = SubSeq(call.messages, n - kept + 1, n)

(***************************************************************************)
(* Single calls of the SessionManager methods on a store drawn from the    *)
(* stores the methods can build; value keeps the store before the call and *)
(* what the call returned.                                                 *)
(***************************************************************************)
\* a session id absent, or stored with a history of up to two entries
StoredAs(sid) ==
    {<<>>} \cup {[x \in {sid} |-> [history |-> h, last_accessed |-> t]] :
                    h \in SeqsUpTo(EntriesFor(sid), 2), t \in 0..now}

SessionCalls ==
    [fn : {"create_session", "get_session_history", "delete_session"},
     sid : SessionIds]
        \cup [fn : {"clear_expired_sessions"}, timeout_seconds : 0..MaxTime]
        \cup [fn : {"add_to_history"}, sid : SessionIds, role : Roles]
        \cup UNION {{[fn |-> "update_history", sid |-> sid, history |-> h] :
                        h \in SeqsUpTo(EntriesFor(sid), 2)} : sid \in SessionIds}

InitSessionCall ==
    /\ max_history_per_session \in 1..MaxM
    /\ now \in 0..MaxTime
    /\ \E a \in StoredAs("s1"), b \in StoredAs("s2") : sessions = a @@ b
    /\ call \in SessionCalls
    /\ value = NoCall
    /\ last_processed_ids = {}
    /\ touched = {}
    /\ progress = Progress("idle", "")
    /\ collection = NoCollection
    /\ database = EmptyDatabase
    /\ run = [r \in Runs |-> IdleRun]
    /\ turn = [w \in Workers |-> IdleTurn]
    /\ nturns = 0
    /\ written = {}
    /\ lastWrite = <<>>

\* what the call under way returns
Return(returned) ==
    /\ value = NoCall
    /\ value' = [fn |-> call.fn, before |-> sessions, returned |-> returned]
    /\ UNCHANGED <<call, detectVars>>

CallCreateSession ==
    /\ call.fn = "create_session"
    /\ create_session(call.sid)
    /\ Return(call.sid)

CallGetSessionHistory ==
    /\ call.fn = "get_session_history"
    /\ get_session_history(call.sid)
    /\ Return(HistoryOf(call.sid))

CallAddToHistory ==
    /\ call.fn = "add_to_history"
    /\ add_to_history(call.sid, call.role, CHOOSE c \in ContentFor(call.sid) : TRUE)
    /\ Return(TRUE)

CallUpdateHistory ==
    /\ call.fn = "update_history"
    /\ update_history(call.sid, call.history)
    /\ Return(TRUE)

CallDeleteSession ==
    /\ call.fn = "delete_session"
    /\ delete_session(call.sid)
    /\ Return(TRUE)

CallClearExpiredSessions ==
    /\ call.fn = "clear_expired_sessions"
    /\ clear_expired_sessions(call.timeout_seconds)
    /\ Return(Cardinality(Expired(call.timeout_seconds)))

NextSessionCall ==
    \/ CallCreateSession
    \/ CallGetSessionHistory
    \/ CallAddToHistory
    \/ CallUpdateHistory
    \/ CallDeleteSession
    \/ CallClearExpiredSessions

SpecSessionCall == InitSessionCall /\ [][NextSessionCall]_vars

\* the sessions other than sid are stored as before the call
OthersKept(sid) ==
    \A o \in SessionIds \ {sid} :
        /\ o \in DOMAIN sessions <=> o \in DOMAIN value.before
        /\ o \in DOMAIN sessions => sessions[o] = value.before[o]

\* C19: create_session on an id that is already stored leaves that session
\* with an empty history, whatever it held before, and every other session
\* as it was.
C19_RecreatedEmpty ==
    (value.fn = "create_session" /\ call.sid \in DOMAIN value.before) =>
        /\ call.sid \in DOMAIN sessions
        /\ sessions[call.sid].history = <<>>
        /\ OthersKept(call.sid)

\* C19 witness: both sessions held two entries, and s1 was created again
C19_Witness ==
    /\ value.fn = "create_session" /\ call.sid = "s1"
    /\ DOMAIN value.before = {"s1", "s2"}
    /\ Len(value.before["s1"].history) = 2
    /\ sessions["s1"].history = <<>>
    /\ Len(sessions["s2"].history) = 2

\* C20: clear_expired_sessions(t) removes exactly the sessions last accessed
\* more than t seconds ago, returns how many it removed and leaves the others
\* as they were; delete_session removes its session only; no other method
\* removes a session.
C20_SweepRemovesExactlyExpired ==
    /\ value.fn = "clear_expired_sessions" =>
           LET removed == {sid \in DOMAIN value.before :
                              now - value.before[sid].last_accessed
                                  > call.timeout_seconds}
           IN /\ DOMAIN sessions = DOMAIN value.before \ removed
              /\ value.returned = Cardinality(removed)
              /\ \A sid \in DOMAIN sessions : sessions[sid] = value.before[sid]
    /\ value.fn = "delete_session" =>
           /\ DOMAIN sessions = DOMAIN value.before \ {call.sid}
           /\ \A sid \in DOMAIN sessions : sessions[sid] = value.before[sid]
    /\ value.fn \in {"create_session", "get_session_history", "add_to_history",
                      "update_history"} =>
           DOMAIN value.before \subseteq DOMAIN sessions

\* C20 witness: at time 2 a sweep with timeout 1 removed s1, last accessed at
\* 0, kept s2, last accessed at 1 with its two entries, and returned 1
C20_Witness ==
    /\ value.fn = "clear_expired_sessions" /\ call.timeout_seconds = 1
    /\ now = 2
    /\ DOMAIN value.before = {"s1", "s2"}
    /\ value.before["s1"].last_accessed = 0
    /\ value.before["s2"].last_accessed = 1
    /\ DOMAIN sessions = {"s2"}
    /\ Len(sessions["s2"].history) = 2
    /\ value.returned = 1

(***************************************************************************)
(* Change detection (EventDetection) next to a sync run, the readers of    *)
(* the collection and the administrators who edit the tables.              *)
(***************************************************************************)
\* the step of a change detection call that fails: the cursor or the UNION ALL
\* query, the reads of get_current_document_ids, the calls of the store
Faults == {"none", "query", "ids", "store"}

\* _format_doc_id(doc_type, doc_id)
format_doc_id(type, id) == IF type = "url" THEN <<"url", url_id(id)>> ELSE <<type, id>>

\* the ids get_current_document_ids collects: handbooks and courses WHERE
\* archive_at IS NULL, every url and every faq
current_document_ids_with_archived(db) ==
    {format_doc_id(d.type, d.id[2]) : d \in db.rows}
        \cup {format_doc_id("url", u.link_url) : u \in db.urls}
current_document_ids(db) ==
    {format_doc_id(d.type, d.id[2]) :
        d \in {e \in db.rows : e.type \in {"handbook", "course"} => ~e.archive_at}}
        \cup {format_doc_id("url", u.link_url) : u \in db.urls}

\* get_current_document_ids(): no connection, or an exception, gives set()
get_current_document_ids(db, fault) ==
    IF fault = "ids" THEN {} ELSE current_document_ids(db)

\* the rows of the UNION ALL query: updated_at > last_sync_time, handbooks and
\* courses WHERE archive_at IS NULL
updated_documents(db, last_sync_time) ==
    {format_doc_id(d.type, d.id[2]) :
        d \in {e \in db.rows :
                  /\ e.updated_at > last_sync_time
                  /\ (e.type \in {"handbook", "course"} => ~e.archive_at)}}
        \cup {format_doc_id("url", u.link_url) :
                 u \in {v \in db.urls : v.updated_at > last_sync_time}}

\* get_last_sync_time(collection)
get_last_sync_time(coll) ==
    IF coll.exists /\ SyncMetadata \in coll.items THEN coll.last_sync ELSE Epoch

\* _extract_base_id(chunk_id): chunk_id.split('_chunk_')[0]
extract_base_id_whole(chunk_id) == chunk_id
extract_base_id(chunk_id) == <<chunk_id[1], chunk_id[2]>>

\* the base ids of the entries of the collection, without '_sync_...'
chromadb_base_ids(coll) ==
    {extract_base_id(c.id) : c \in {i \in coll.items : i.id # MetaId}}

\* check_for_updates(db, last_sync_time)
check_for_updates_fail_closed(db, coll, last_sync_time, fault) ==
    IF fault = "query" THEN TRUE
    ELSE IF updated_documents(db, last_sync_time) # {} THEN TRUE
    ELSE IF fault = "store" THEN FALSE
    ELSE chromadb_base_ids(GotOrCreated(coll))
             \ get_current_document_ids(db, fault) # {}
check_for_updates(db, coll, last_sync_time, fault) ==
    IF fault = "query" THEN TRUE
    ELSE IF updated_documents(db, last_sync_time) # {} THEN TRUE
    ELSE IF fault = "store" THEN TRUE
    ELSE chromadb_base_ids(GotOrCreated(coll))
             \ get_current_document_ids(db, fault) # {}

\* get_changed_documents(db, last_sync_time): the three lists and the new
\* baseline
get_changed_documents(db, baseline, last_sync_time, fault) ==
    IF fault = "query"
    THEN [inserted |-> {}, updated |-> {}, deleted |-> {},
          last_processed_ids |-> baseline]
    ELSE LET rows == updated_documents(db, last_sync_time)
             current_ids == get_current_document_ids(db, fault)
         IN [inserted |-> rows \ baseline, updated |-> rows \cap baseline,
             deleted |-> baseline \ current_ids,
             last_processed_ids |-> current_ids]

\* the run has read the Handbook, Course and faqs tables
HasRead(r) ==
    \/ run[r].pc \in {"analyze", "chunk", "scrape", "write_back", "delete",
                      "create", "upsert", "sync_time"}
    \/ run[r].pc = "returned" /\ run[r].result

\* the run returned True and the last_sync it wrote is the one in the store
RecordedLastSync(r) ==
    /\ run[r].pc = "returned" /\ run[r].result
    /\ collection.exists /\ collection.by = r /\ SyncMetadata \in collection.items

TouchedBy(d, kind) == touched \cup {<<d.id, r, kind>> : r \in {q \in Runs : HasRead(q)}}

\* an administrator saves a row: updated_at = NOW()
EditRow(d) ==
    /\ d \in database.rows
    /\ database' = [database EXCEPT
           !.rows = (@ \ {d}) \cup {[d EXCEPT !.updated_at = now]}]
    /\ touched' = TouchedBy(d, "edit")
    /\ UNCHANGED <<callVars, last_processed_ids, sessVars, kbVars, run, chatVars>>

\* an administrator archives a handbook or a course: archive_at = NOW()
ArchiveRow(d) ==
    /\ d \in database.rows
    /\ d.type \in {"handbook", "course"}
    /\ ~d.archive_at
    /\ database' = [database EXCEPT
           !.rows = (@ \ {d}) \cup {[d EXCEPT !.archive_at = TRUE]}]
    /\ touched' = TouchedBy(d, "archive")
    /\ UNCHANGED <<callVars, last_processed_ids, sessVars, kbVars, run, chatVars>>

\* event_detector.check_for_updates(db, last_sync_time) with the last_sync of
\* the store; the call keeps what it found
CheckForUpdates ==
    /\ value = NoCall
    /\ \E fault \in Faults :
        LET last_sync_time == get_last_sync_time(collection)
            reaches_store ==
                /\ fault \notin {"query", "store"}
                /\ updated_documents(database, last_sync_time) = {}
        IN /\ value' = [fn |-> "check_for_updates", fault |-> fault,
                        returned |-> check_for_updates(database, collection,
                                                       last_sync_time, fault),
                        updates |-> updated_documents(database, last_sync_time),
                        absent |-> chromadb_base_ids(collection)
                                       \ current_document_ids(database),
                        after |-> {r \in Runs : RecordedLastSync(r)},
                        touched |-> touched, database |-> database,
                        items |-> collection.items]
           /\ collection' = IF reaches_store THEN GotOrCreated(collection)
                            ELSE collection
           /\ UNCHANGED <<call, detectVars, sessVars, progress, syncVars, chatVars>>

\* event_detector.get_changed_documents(db, last_sync_time); the call keeps
\* the baseline it started from and the id set of the database
GetChangedDocuments ==
    \E fault \in Faults \ {"store"}, last_sync_time \in 0..MaxTime :
        LET changes == get_changed_documents(database, last_processed_ids,
                                             last_sync_time, fault)
        IN /\ value' = [fn |-> "get_changed_documents", fault |-> fault,
                        before |-> last_processed_ids,
                        rows |-> updated_documents(database, last_sync_time),
                        database |-> database,
                        last_processed_ids |-> changes.last_processed_ids,
                        returned |-> [inserted |-> changes.inserted,
                                      updated |-> changes.updated,
                                      deleted |-> changes.deleted]]
           /\ last_processed_ids' = changes.last_processed_ids
           /\ UNCHANGED <<call, touched, sessVars, kbVars, syncVars, chatVars>>

\* handbook 1 is current, handbook 2 was archived by an earlier run (its chunk
\* K2 is still published), handbook 4 does not decode
DetectRows ==
    {Row("handbook", 1, "student_handbook", 2024, 2, 1, TRUE, FALSE),
     Row("handbook", 2, "student_handbook", 2020, 2, 1, TRUE, TRUE),
     Row("handbook", 4, "student_handbook", 0, 0, 1, FALSE, FALSE)}

\* the same page under both schemes and with a trailing slash
TlcAboutHttp == Url(<<"http://", "tlc", ".", "edu", "/", "about", "/">>, 1)
DetectUrls == {TlcAbout, TlcAboutHttp}

\* the service starts at time 1 with the startup run scheduled
InitDetect ==
    /\ max_history_per_session = ChatMaxHistory
    /\ sessions = <<>>
    /\ now = 1
    /\ progress = Progress("idle", "")
    /\ collection \in {NoCollection, Collection({SyncMetadata, K1, K2})}
    /\ \E rows \in SUBSET DetectRows, urls \in SUBSET DetectUrls :
          database = [rows |-> rows, urls |-> urls]
    /\ run = [r \in Runs |-> IF r = 0 THEN [IdleRun EXCEPT !.pc = "scheduled"]
                             ELSE IdleRun]
    /\ turn = [w \in Workers |-> IdleTurn]
    /\ nturns = 0
    /\ written = {}
    /\ lastWrite = <<>>
    /\ call = NoCall
    /\ value = NoCall
    /\ last_processed_ids = {}
    /\ touched = {}

NextDetect ==
    \/ Begin(0)
    \/ Connect(0)
    \/ Collect(0)
    \/ Analyze(0)
    \/ ChunkDocuments(0)
    \/ Scrape(0)
    \/ WriteBack(0)
    \/ DeleteCollection(0)
    \/ CreateCollection(0)
    \/ Upsert(0)
    \/ UpdateSyncTime(0)
    \/ Tick
    \/ \E d \in database.rows : EditRow(d)
    \/ CheckForUpdates

SpecDetect == InitDetect /\ [][NextDetect]_vars

C25_NoModificationMissed ==
    (/\ value.fn = "check_for_updates"
     /\ value.fault = "none"
     /\ \E r \in value.after, d \in value.database.rows :
           ~d.archive_at /\ <<d.id, r, "edit">> \in value.touched)
        => value.returned

C27_ArchivedStaysOut ==
    \A r \in Runs :
        /\ \A i \in 1..Len(run[r].documents_data) :
              ~run[r].documents_data[i].archive_at
        /\ \A d \in database.rows :
              d.archive_at =>
                 /\ d.id \in DOMAIN run[r].archive_status => ~run[r].archive_status[d.id]
                 /\ RecordedLastSync(r) =>
                       \A c \in collection.items : <<c.id[1], c.id[2]>> # d.id

\* handbook 2 is archived and its chunk was published before the run; the
\* run succeeded
C27_Witness ==
    /\ RecordedLastSync(0)
    /\ \E d \in database.rows : d.id = <<"handbook", 2>> /\ d.archive_at
    /\ K2 \notin collection.items
    /\ collection.items # {SyncMetadata}

\* C28: the chunk ids a run hands to the upsert are pairwise distinct.
C28_ChunkIdsDistinct ==
    \A r \in Runs : \A i, j \in 1..Len(run[r].ids) : run[r].ids[i] = run[r].ids[j] => i = j

\* the change detector called again and again while administrators edit the
\* tables; no sync run is scheduled
InitDelta ==
    /\ max_history_per_session = ChatMaxHistory
    /\ sessions = <<>>
    /\ now = 1
    /\ progress = Progress("idle", "")
    /\ collection = NoCollection
    /\ \E rows \in SUBSET DetectRows, urls \in SUBSET DetectUrls :
          database = [rows |-> rows, urls |-> urls]
    /\ run = [r \in Runs |-> IdleRun]
    /\ turn = [w \in Workers |-> IdleTurn]
    /\ nturns = 0
    /\ written = {}
    /\ lastWrite = <<>>
    /\ call = NoCall
    /\ value = NoCall
    /\ last_processed_ids = {}
    /\ touched = {}

NextDelta ==
    \/ Tick
    \/ \E d \in database.rows : EditRow(d)
    \/ \E d \in database.rows : ArchiveRow(d)
    \/ GetChangedDocuments

SpecDelta == InitDelta /\ [][NextDelta]_vars

\* C23: every call of get_changed_documents reports each touched id as
\* inserted when the baseline lacks it and as updated otherwise, reports as
\* deleted the baseline minus the ids of the database, and leaves the ids of
\* the database as the baseline.
IdsOf(db) ==
    {d.id : d \in {e \in db.rows : ~e.archive_at}}
        \cup {<<"url", url_id(u.link_url)>> : u \in db.urls}
C23_DeltaEveryCall ==
    value.fn = "get_changed_documents" =>
        /\ value.returned.inserted = value.rows \ value.before
        /\ value.returned.updated = value.rows \cap value.before
        /\ value.returned.inserted \cap value.returned.updated = {}
        /\ value.returned.deleted = value.before \ IdsOf(value.database)
        /\ value.last_processed_ids = IdsOf(value.database)

\* C23 (amended): the same for every call whose reads of the database succeed;
\* a call whose query fails returns three empty lists and keeps the baseline,
\* a call whose read of the current ids fails reports the whole baseline as
\* deleted and leaves an empty baseline.
C23_DeltaWhenReadsSucceed ==
    value.fn = "get_changed_documents" =>
        CASE value.fault = "none" ->
                /\ value.returned.inserted = value.rows \ value.before
                /\ value.returned.updated = value.rows \cap value.before
                /\ value.returned.inserted \cap value.returned.updated = {}
                /\ value.returned.deleted = value.before \ IdsOf(value.database)
                /\ value.last_processed_ids = IdsOf(value.database)
          [] value.fault = "query" ->
                /\ value.returned = [inserted |-> {}, updated |-> {}, deleted |-> {}]
                /\ value.last_processed_ids = value.before
          [] value.fault = "ids" ->
                /\ value.returned.inserted = value.rows \ value.before
                /\ value.returned.updated = value.rows \cap value.before
                /\ value.returned.deleted = value.before
                /\ value.last_processed_ids = {}

\* a later call that reports an updated row and a deleted one
C23_Witness ==
    /\ value.fn = "get_changed_documents"
    /\ value.fault = "none"
    /\ value.returned.inserted = {}
    /\ value.returned.updated # {}
    /\ value.returned.deleted # {}

(***************************************************************************)
(* Chat requests served while sync runs republish the collection.          *)
(***************************************************************************)
\* the url table holds one page and the other tables are empty; the startup
\* run has published the page and returned True, and a POST may request
\* another run. The page is not near enough to any query to be admitted, so
\* no turn reaches the answer call.
InitReaders ==
    /\ max_history_per_session = ChatMaxHistory
    /\ sessions = <<>>
    /\ now = 0
    /\ progress = Progress("completed", "Completed")
    /\ collection = [Collection({UrlChunk(TlcAbout), SyncMetadata}) EXCEPT !.by = 0]
    /\ database = [rows |-> {}, urls |-> {TlcAbout}]
    /\ run = [r \in Runs |->
                 IF r = 0 THEN [IdleRun EXCEPT !.pc = "returned", !.result = TRUE]
                 ELSE IdleRun]
    /\ turn = [w \in Workers |-> IdleTurn]
    /\ nturns = 0
    /\ written = {}
    /\ lastWrite = <<>>
    /\ call = NoCall
    /\ value = NoCall
    /\ last_processed_ids = {}
    /\ touched = {}

NextReaders ==
    \/ \E r \in Runs :
          \/ trigger_sync(r)
          \/ Begin(r)
          \/ Connect(r)
          \/ Collect(r)
          \/ Analyze(r)
          \/ ChunkDocuments(r)
          \/ Scrape(r)
          \/ WriteBack(r)
          \/ DeleteCollection(r)
          \/ CreateCollection(r)
          \/ Upsert(r)
          \/ UpdateSyncTime(r)
    \/ ReceivePrompt("w1")
    \/ CheckSession("w1")
    \/ CreateSession("w1")
    \/ GetHistory("w1")
    \/ GenerateClosing("w1")
    \/ CheckSyncReady("w1")
    \/ GenerateConfirmation("w1")
    \/ RewriteQuery("w1")
    \/ RetrieveContext("w1")
    \/ UpdateConversationHistory("w1")

SpecReaders == InitReaders /\ [][NextReaders]_vars

\* apart from the startup run, no other run has been entered
Alone(r) == \A q \in Runs \ {0, r} : run[q].pc \in {"none", "rejected", "scheduled"}

\* C24: a sync run that has collected chunks and is the only run executing
\* never fails at create_collection, whatever the chat requests do between
\* its delete and its create.
C24_ReaderHarmless ==
    [][\A r \in Runs :
          (run[r].pc = "create" /\ Alone(r) /\ run'[r].pc = "returned")
              => run'[r].result]_vars

(***************************************************************************)
(* The session store driven directly by concurrent callers.                *)
(***************************************************************************)
InitSession ==
    /\ max_history_per_session \in 0..MaxM
    /\ sessions = <<>>
    /\ now = 0
    /\ progress = Progress("idle", "")
    /\ collection = NoCollection
    /\ database = EmptyDatabase
    /\ run = [r \in Runs |-> IdleRun]
    /\ turn = [w \in Workers |-> IdleTurn]
    /\ nturns = 0
    /\ written = {}
    /\ lastWrite = <<>>
    /\ call = NoCall
    /\ value = NoCall
    /\ last_processed_ids = {}
    /\ touched = {}

NextSession ==
    \/ \E sid \in SessionIds : create_session(sid) /\ UNCHANGED <<callVars, detectVars>>
    \/ \E sid \in SessionIds : get_session_history(sid) /\ UNCHANGED <<callVars, detectVars>>
    \/ \E sid \in SessionIds : \E role \in Roles, content \in ContentFor(sid) :
            /\ session_exists(sid) /\ Len(sessions[sid].history) < MaxLen
            /\ add_to_history(sid, role, content) /\ UNCHANGED <<callVars, detectVars>>
    \/ \E sid \in SessionIds : \E history \in SeqsUpTo(EntriesFor(sid), MaxLen) :
            update_history(sid, history) /\ UNCHANGED <<callVars, detectVars>>
    \/ \E sid \in SessionIds : delete_session(sid) /\ UNCHANGED <<callVars, detectVars>>
    \/ \E timeout_seconds \in 0..MaxTime :
            clear_expired_sessions(timeout_seconds) /\ UNCHANGED <<callVars, detectVars>>
    \/ Tick

SpecSession == InitSession /\ [][NextSession]_vars

\* C1: every stored session's history holds at most
\* 2 * max_history_per_session entries, for every max_history_per_session >= 0.
C1_HistoryBounded ==
    \A sid \in SessionIds :
        session_exists(sid) =>
            Len(sessions[sid].history) <= 2 * max_history_per_session

\* C2: under any interleaving of add_to_history and update_history calls on
\* two session ids, a session's history holds only entries submitted for that
\* session id; no entry appears in the other session.
C2_NoLeak ==
    \A sid \in SessionIds :
        session_exists(sid) =>
            \A i \in 1..Len(sessions[sid].history) :
                sessions[sid].history[i] \in EntriesFor(sid)

\* both sessions hold entries after appends and a bulk replace
C2_Witness ==
    /\ session_exists("s1") /\ session_exists("s2")
    /\ Len(sessions["s1"].history) >= 2
    /\ Len(sessions["s2"].history) >= 2
    /\ sessions["s1"].history # sessions["s2"].history

====
